---- MODULE Spec2Model ----
(***************************************************************************)
(* Borrowing Power Calculator (assets/js/calculator.js).                   *)
(*                                                                         *)
(* Strings are sequences of one-character strings, except the fixed        *)
(* literals of the source, which are kept as one piece each.  JavaScript   *)
(* numbers are decimal fractions n / 10^e (or NaN); every value the model  *)
(* reaches is far below 2^53, where the source's arithmetic on integers    *)
(* is exact.                                                               *)
(***************************************************************************)
EXTENDS Integers, Sequences, FiniteSets, TLC

\* ------------------------------------------------------------------ bounds

\* Longest text (in characters) drawn for the trail field in SpecText.
MaxLen == 4
\* Most digits the trail field holds after a keystroke in Spec and SpecDom.
MaxTyped == 2
\* Clock ticks per debounce delay.
Granularity == 3
\* Most presentation targets missing from the page in SpecDom.
MaxMissing == 1

\* ------------------------------------------------------------- characters

Digits == {"0", "1", "2", "3", "4", "5", "6", "7", "8", "9"}

DigitChars == <<"0", "1", "2", "3", "4", "5", "6", "7", "8", "9">>

DigitVal(c) == CHOOSE d \in 0..9 : DigitChars[d + 1] = c

Max(a, b) == IF a >= b THEN a ELSE b

Min(a, b) == IF a <= b THEN a ELSE b

Abs(a) == IF a < 0 THEN -a ELSE a

RECURSIVE Pow10(_)
Pow10(k) == IF k = 0 THEN 1 ELSE 10 * Pow10(k - 1)

\* ---------------------------------------------------------------- numbers

Dec(n, e) == [nan |-> FALSE, n |-> n, e |-> e]

NaN == [nan |-> TRUE, n |-> 0, e |-> 0]

\* JavaScript's falsy numbers: NaN, 0 and -0.
Falsy(x) == x.nan \/ x.n = 0

\* x || d
OrElse(x, d) == IF Falsy(x) THEN d ELSE x

\* x * y
Mul(x, y) == Dec(x.n * y.n, x.e + y.e)

\* The same number without trailing zeros in its fraction.
RECURSIVE Norm(_)
Norm(x) ==
    IF x.e > 0 /\ x.n % 10 = 0 THEN Norm(Dec(x.n \div 10, x.e - 1)) ELSE x

\* |n| / 10^k rounded to the nearest integer, halves away from zero.
RoundDiv(n, k) ==
    LET p == Pow10(k)
        q == Abs(n) \div p
        r == Abs(n) % p
    IN  IF 2 * r >= p THEN q + 1 ELSE q

\* ------------------------------------------------------------- conversions

RECURSIVE DigitPrefix(_)
DigitPrefix(s) ==
    IF s = <<>> \/ Head(s) \notin Digits THEN <<>>
    ELSE <<Head(s)>> \o DigitPrefix(Tail(s))

RECURSIVE DigitsValue(_)
DigitsValue(ds) ==
    IF ds = <<>> THEN 0
    ELSE 10 * DigitsValue(SubSeq(ds, 1, Len(ds) - 1)) + DigitVal(ds[Len(ds)])

RECURSIVE IntToDigits(_)
IntToDigits(n) ==
    IF n < 10 THEN <<DigitChars[n + 1]>>
    ELSE IntToDigits(n \div 10) \o <<DigitChars[(n % 10) + 1]>>

\* value.replace(/[^0-9]/g, '')
StripNonDigits(value) == SelectSeq(value, LAMBDA c : c \in Digits)

\* parseInt(s, 10): an optional sign, then the longest run of digits; NaN
\* when there is none.
parseInt(s) ==
    LET neg  == s # <<>> /\ Head(s) = "-"
        body == IF s # <<>> /\ Head(s) \in {"-", "+"} THEN Tail(s) ELSE s
        ds   == DigitPrefix(body)
    IN  IF ds = <<>> THEN NaN
        ELSE Dec((IF neg THEN -1 ELSE 1) * DigitsValue(ds), 0)

\* parseFloat(s): an optional sign, digits, and an optional point followed
\* by digits; the longest such prefix; NaN when it holds no digit.
parseFloat(s) ==
    LET neg   == s # <<>> /\ Head(s) = "-"
        body  == IF s # <<>> /\ Head(s) \in {"-", "+"} THEN Tail(s) ELSE s
        ip    == DigitPrefix(body)
        rest  == SubSeq(body, Len(ip) + 1, Len(body))
        fp    == IF rest # <<>> /\ Head(rest) = "." THEN DigitPrefix(Tail(rest))
                 ELSE <<>>
    IN  IF ip = <<>> /\ fp = <<>> THEN NaN
        ELSE Dec((IF neg THEN -1 ELSE 1) * DigitsValue(ip \o fp), Len(fp))

\* Digits in groups of three, separated by commas (locale en-AU).
RECURSIVE GroupDigits(_)
GroupDigits(ds) ==
    IF Len(ds) <= 3 THEN ds
    ELSE GroupDigits(SubSeq(ds, 1, Len(ds) - 3)) \o <<",">>
            \o SubSeq(ds, Len(ds) - 2, Len(ds))

\* n.toLocaleString('en-AU') for an integer n >= 0
toLocaleString(n) == GroupDigits(IntToDigits(n))

\* x.toFixed(1)
toFixed1(x) ==
    LET t == IF x.e <= 1 THEN Abs(x.n) * Pow10(1 - x.e)
             ELSE RoundDiv(x.n, x.e - 1)
    IN  (IF x.n < 0 THEN <<"-">> ELSE <<>>)
            \o IntToDigits(t \div 10) \o <<".">> \o <<DigitChars[(t % 10) + 1]>>

formatCurrency(amount) ==
    (IF amount.n < 0 THEN <<"-">> ELSE <<>>) \o <<"$">>
        \o toLocaleString(RoundDiv(amount.n, amount.e))

\* formatNumberWithCommas without the removal of the other characters.
FormatUnstripped(value) ==
    LET num == value
    IN  IF num = <<>> THEN <<>>
        ELSE IF parseInt(num).nan THEN <<"N", "a", "N">>
        ELSE toLocaleString(Abs(parseInt(num).n))

formatNumberWithCommas(value) ==
    LET num == StripNonDigits(value)
    IN  IF num = <<>> THEN <<>> ELSE toLocaleString(parseInt(num).n)

\* parseFormattedNumber without the removal of the other characters.
ParseUnstripped(value) == OrElse(parseInt(value), Dec(0, 0))

parseFormattedNumber(value) ==
    LET cleaned == StripNonDigits(value)
    IN  OrElse(parseInt(cleaned), Dec(0, 0))

\* ------------------------------------------------------------------- page

DEBOUNCE_DELAY == 300

\* The two text inputs, the display elements in the order calculate writes
\* them, and the chart's canvas.
InputIds == {"monthlyTrail", "bookMultiple"}

DisplayIds ==
    <<"multipleDisplay", "displayMonthlyTrail", "annualTrail", "displayMultiple",
      "bookValue", "accessLabel", "accessAmount", "accessPercent">>

CanvasId == "comparisonChart"

Elements == InputIds \cup {DisplayIds[i] : i \in 1..Len(DisplayIds)} \cup {CanvasId}

\* The value of no checked loanPurpose radio.
NoneChecked == "none"

Text(str) == <<str>>

VARIABLES
    pc,               \* "init" before DOMContentLoaded, "ready" after
    present,          \* the ids document.getElementById finds
    trailText,        \* monthlyTrail.value
    caret,            \* monthlyTrail.selectionStart
    multipleText,     \* bookMultiple.value
    checked,          \* value of the checked loanPurpose radio, or NoneChecked
    display,          \* textContent of each display element
    timers,           \* the browser's pending timeouts
    debounceTimer,    \* the module's timer handle (0: null)
    liveCharts,       \* Chart instances constructed and not destroyed
    comparisonChart,  \* the module's chart handle (0: null)
    sinceCall,        \* time since debouncedCalculate was last called (capped)
    lastArgs,         \* arguments of the last call of debouncedCalculate
    rearmed,          \* the last call of debouncedCalculate cancelled a pending one
    ev,               \* the last event handled
    calc,             \* locals of the last run of calculate
    inp               \* locals of the last run of handleCurrencyInput

vars ==
    <<pc, present, trailText, caret, multipleText, checked, display, timers,
      debounceTimer, liveCharts, comparisonChart, sinceCall, lastArgs, rearmed,
      ev, calc, inp>>

NoCalc ==
    [ran |-> FALSE, threw |-> FALSE, args |-> <<>>,
     monthlyTrail |-> Dec(0, 0), multiple |-> Dec(0, 0), isAcquisition |-> FALSE,
     annualTrail |-> Dec(0, 0), bookValue |-> Dec(0, 0), accessAmount |-> Dec(0, 0),
     accessPercent |-> "", accessLabel |-> ""]

NoInp == [oldValue |-> <<>>, cursorPosition |-> 0]

\* ------------------------------------------------------------- calculate

getSelectedPurpose(chk) == IF chk # NoneChecked THEN chk ELSE "acquisition"

\* calculate with the two percentages exchanged.
LocalsSwapped(trail, mult, chk) ==
    LET monthlyTrail       == parseFormattedNumber(trail)
        multiple           == OrElse(parseFloat(mult), Dec(3, 0))
        annualTrail        == Mul(monthlyTrail, Dec(12, 0))
        bookValue          == Mul(annualTrail, multiple)
        isAcquisition      == getSelectedPurpose(chk) = "acquisition"
    IN  [monthlyTrail  |-> monthlyTrail,
         multiple      |-> multiple,
         isAcquisition |-> isAcquisition,
         annualTrail   |-> annualTrail,
         bookValue     |-> bookValue,
         accessAmount  |-> IF isAcquisition THEN Mul(bookValue, Dec(5, 1))
                           ELSE Mul(bookValue, Dec(7, 1)),
         accessPercent |-> IF isAcquisition THEN "70%" ELSE "50%",
         accessLabel   |-> IF isAcquisition THEN "Acquisition Finance"
                           ELSE "Working Capital"]

\* The locals of calculate (lines 51-66) for the given field contents.
Locals(trail, mult, chk) ==
    LET monthlyTrail       == parseFormattedNumber(trail)
        multiple           == OrElse(parseFloat(mult), Dec(3, 0))
        purpose            == getSelectedPurpose(chk)
        annualTrail        == Mul(monthlyTrail, Dec(12, 0))
        bookValue          == Mul(annualTrail, multiple)
        workingCapital     == Mul(bookValue, Dec(5, 1))
        acquisitionFinance == Mul(bookValue, Dec(7, 1))
        isAcquisition      == purpose = "acquisition"
    IN  [monthlyTrail  |-> monthlyTrail,
         multiple      |-> multiple,
         isAcquisition |-> isAcquisition,
         annualTrail   |-> annualTrail,
         bookValue     |-> bookValue,
         accessAmount  |-> IF isAcquisition THEN acquisitionFinance ELSE workingCapital,
         accessPercent |-> IF isAcquisition THEN "70%" ELSE "50%",
         accessLabel   |-> IF isAcquisition THEN "Acquisition Finance"
                           ELSE "Working Capital"]

\* The text calculate assigns to each display element (lines 69-78).
Rendered(L) ==
    [id \in {DisplayIds[i] : i \in 1..Len(DisplayIds)} |->
        CASE id = "multipleDisplay"     -> toFixed1(L.multiple) \o Text("x")
          [] id = "displayMonthlyTrail" -> formatCurrency(L.monthlyTrail)
          [] id = "annualTrail"         -> formatCurrency(L.annualTrail)
          [] id = "displayMultiple"     -> toFixed1(L.multiple) \o Text("x")
          [] id = "bookValue"           -> formatCurrency(L.bookValue)
          [] id = "accessLabel"         -> Text(L.accessLabel)
          [] id = "accessAmount"        -> formatCurrency(L.accessAmount)
          [] id = "accessPercent"       -> Text(L.accessPercent) \o Text(" of book value")]

\* The Chart that updateComparisonChart constructs (lines 94-107).
NewChart(id, bookValue, accessAmount, isAcquisition) ==
    [id     |-> id,
     labels |-> <<"Book Value",
                  IF isAcquisition THEN "Acquisition (70%)" ELSE "Working Capital (50%)">>,
     data   |-> <<bookValue, accessAmount>>,
     backgroundColor |-> <<"#f26739", IF isAcquisition THEN "#2e7d32" ELSE "#1976d2">>]

\* updateComparisonChart without the call of destroy.
KeepOld == liveCharts

\* comparisonChart.destroy() when the handle is set (lines 90-92).
DestroyOld == {c \in liveCharts : c.id # comparisonChart}

\* The identity of a newly constructed Chart: one no live chart has.
FreshChartId ==
    CHOOSE i \in 1..(Cardinality(liveCharts) + 1) :
        /\ \A c \in DestroyOld : c.id # i
        /\ \A j \in 1..(i - 1) : \E c \in DestroyOld : c.id = j

updateComparisonChart(bookValue, accessAmount, isAcquisition) ==
    IF CanvasId \notin present
    THEN UNCHANGED <<liveCharts, comparisonChart>>
    ELSE /\ liveCharts' = DestroyOld
                \cup {NewChart(FreshChartId, bookValue, accessAmount, isAcquisition)}
         /\ comparisonChart' = FreshChartId

\* The display elements calculate reaches: those before the first missing
\* one, on which the assignment to textContent throws.
Reached ==
    LET missing == {i \in 1..Len(DisplayIds) : DisplayIds[i] \notin present}
        first   == IF missing = {} THEN Len(DisplayIds) + 1
                   ELSE CHOOSE i \in missing : \A j \in missing : i <= j
    IN  {DisplayIds[i] : i \in 1..(first - 1)}

\* calculate(), called with args (which it ignores), on the contents the
\* fields hold after this step.
calculate(args) ==
    LET L == Locals(trailText', multipleText', checked')
    IN  IF ~(InputIds \subseteq present)
        THEN /\ calc' = [NoCalc EXCEPT !.ran = TRUE, !.threw = TRUE, !.args = args]
             /\ UNCHANGED <<display, liveCharts, comparisonChart>>
        ELSE /\ display' = [id \in DOMAIN display |->
                                IF id \in Reached THEN Rendered(L)[id] ELSE display[id]]
             /\ IF Reached = DOMAIN display
                THEN /\ calc' = L @@ [ran |-> TRUE, threw |-> FALSE, args |-> args]
                     /\ updateComparisonChart(L.bookValue, L.accessAmount, L.isAcquisition)
                ELSE /\ calc' = L @@ [ran |-> TRUE, threw |-> TRUE, args |-> args]
                     /\ UNCHANGED <<liveCharts, comparisonChart>>

\* --------------------------------------------------------------- debounce

TickStep == DEBOUNCE_DELAY \div Granularity

\* debounce without the call of clearTimeout.
KeepTimeout == timers

\* clearTimeout(debounceTimer)
ClearTimeout == {t \in timers : t.id # debounceTimer}

\* The handle setTimeout returns: one no pending timeout has.
FreshTimerId ==
    CHOOSE i \in 1..(Cardinality(timers) + 1) :
        /\ \A t \in ClearTimeout : t.id # i
        /\ \A j \in 1..(i - 1) : \E t \in ClearTimeout : t.id = j

\* The function debounce returns, called with args (lines 39-42).
debouncedCalculate(args) ==
    /\ timers' = ClearTimeout
            \cup {[id |-> FreshTimerId, remaining |-> DEBOUNCE_DELAY, args |-> args]}
    /\ debounceTimer' = FreshTimerId
    /\ sinceCall' = 0
    /\ lastArgs' = args
    /\ rearmed' = (timers # {})

\* ----------------------------------------------------------------- events

\* The 'input' event object of the bookMultiple field.
InputEvent(value) == [type |-> "input", value |-> value]

ChangeEvent(id) == [type |-> "change", target |-> id]

\* handleCurrencyInput without the call of debouncedCalculate.
HandleWithoutTrigger(raw, cursor) ==
    /\ trailText' = formatNumberWithCommas(raw)
    /\ caret' = Max(0, cursor + (Len(formatNumberWithCommas(raw)) - Len(raw)))
    /\ inp' = [oldValue |-> raw, cursorPosition |-> cursor]
    /\ UNCHANGED <<timers, debounceTimer, sinceCall, lastArgs, rearmed>>

\* handleCurrencyInput without Math.max on the new position.
HandleUnclamped(raw, cursor) ==
    /\ trailText' = formatNumberWithCommas(raw)
    /\ caret' = cursor + (Len(formatNumberWithCommas(raw)) - Len(raw))
    /\ inp' = [oldValue |-> raw, cursorPosition |-> cursor]
    /\ debouncedCalculate(<<>>)

handleCurrencyInput(raw, cursor) ==
    LET cursorPosition == cursor
        oldValue       == raw
        oldLength      == Len(oldValue)
        formatted      == formatNumberWithCommas(raw)
        newLength      == Len(formatted)
        diff           == newLength - oldLength
        newPosition    == Max(0, cursorPosition + diff)
    IN  /\ trailText' = formatted
        /\ caret' = newPosition
        /\ inp' = [oldValue |-> oldValue, cursorPosition |-> cursorPosition]
        /\ debouncedCalculate(<<>>)

\* 'change' on bookMultiple bound to debouncedCalculate, as 'input' is.
OnMultipleChangeDebounced ==
    /\ debouncedCalculate(<<ChangeEvent("bookMultiple")>>)
    /\ UNCHANGED <<display, liveCharts, comparisonChart, calc>>

\* The listener of 'change' on bookMultiple (line 185).
OnMultipleChange ==
    /\ calculate(<<ChangeEvent("bookMultiple")>>)
    /\ UNCHANGED <<timers, debounceTimer, sinceCall, lastArgs, rearmed>>

\* The listener of 'change' on each loanPurpose radio (lines 189-191).
OnPurposeChange ==
    /\ calculate(<<ChangeEvent("loanPurpose")>>)
    /\ UNCHANGED <<timers, debounceTimer, sinceCall, lastArgs, rearmed>>

\* DOMContentLoaded: the listeners are registered on the inputs that exist,
\* then calculate runs on the fields as the page gives them.
Load ==
    /\ pc = "init"
    /\ pc' = "ready"
    /\ UNCHANGED <<present, trailText, caret, multipleText, checked, inp>>
    /\ calculate(<<>>)
    /\ UNCHANGED <<timers, debounceTimer, sinceCall, lastArgs, rearmed>>
    /\ ev' = [kind |-> "load", ran |-> TRUE]

\* The user edits the trail field to raw with the caret at cursor; the
\* browser dispatches 'input'.
TrailInput(raw, cursor) ==
    /\ pc = "ready"
    /\ "monthlyTrail" \in present
    /\ raw # trailText
    /\ handleCurrencyInput(raw, cursor)
    /\ UNCHANGED <<pc, present, multipleText, checked, display, liveCharts,
                   comparisonChart, calc>>
    /\ ev' = [kind |-> "trailInput", ran |-> FALSE]

\* The user moves the multiple to value; the browser dispatches 'input'.
MultipleInput(value) ==
    /\ pc = "ready"
    /\ "bookMultiple" \in present
    /\ value # multipleText
    /\ multipleText' = value
    /\ debouncedCalculate(<<InputEvent(value)>>)
    /\ UNCHANGED <<pc, present, trailText, caret, checked, display, liveCharts,
                   comparisonChart, calc, inp>>
    /\ ev' = [kind |-> "multipleInput", ran |-> FALSE]

\* The user commits the multiple; the browser dispatches 'change'.
MultipleChange ==
    /\ pc = "ready"
    /\ "bookMultiple" \in present
    /\ UNCHANGED <<pc, present, trailText, caret, multipleText, checked, inp>>
    /\ OnMultipleChange
    /\ ev' = [kind |-> "multipleChange", ran |-> TRUE]

\* The user checks another loanPurpose radio; the browser dispatches 'change'.
PurposeChange(value) ==
    /\ pc = "ready"
    /\ value # checked
    /\ checked' = value
    /\ UNCHANGED <<pc, present, trailText, caret, multipleText, inp>>
    /\ OnPurposeChange
    /\ ev' = [kind |-> "purposeChange", ran |-> TRUE]

\* A pending timeout whose delay has passed runs its callback,
\* func.apply(this, args) (line 41).
TimerFire ==
    \E t \in timers :
        /\ t.remaining = 0
        /\ timers' = timers \ {t}
        /\ UNCHANGED <<pc, present, trailText, caret, multipleText, checked, inp>>
        /\ calculate(t.args)
        /\ UNCHANGED <<debounceTimer, sinceCall, lastArgs, rearmed>>
        /\ ev' = [kind |-> "timer", ran |-> TRUE]

\* Time passes.
Tick ==
    /\ pc = "ready"
    /\ timers' = {[t EXCEPT !.remaining = Max(0, t.remaining - TickStep)] : t \in timers}
    /\ sinceCall' = Min(DEBOUNCE_DELAY, sinceCall + TickStep)
    /\ \/ timers' # timers
       \/ sinceCall' # sinceCall
    /\ UNCHANGED <<pc, present, trailText, caret, multipleText, checked, display,
                   debounceTimer, liveCharts, comparisonChart, lastArgs, rearmed,
                   ev, calc, inp>>

\* ------------------------------------------------------------ environment

\* The page as loaded: the fields hold what the markup gives them.
InitPage(trails, multiples, purposes, pages) ==
    /\ pc = "init"
    /\ present \in pages
    /\ trailText \in trails
    /\ caret = 0
    /\ multipleText \in multiples
    /\ checked \in purposes
    /\ display = [id \in {DisplayIds[i] : i \in 1..Len(DisplayIds)} |-> <<>>]
    /\ timers = {}
    /\ debounceTimer = 0
    /\ liveCharts = {}
    /\ comparisonChart = 0
    /\ sinceCall = DEBOUNCE_DELAY
    /\ lastArgs = <<>>
    /\ rearmed = FALSE
    /\ ev = [kind |-> "init", ran |-> FALSE]
    /\ calc = NoCalc
    /\ inp = NoInp

TenThousand == <<"1", "0", ",", "0", "0", "0">>

PurposeValues == {"acquisition", "working-capital"}

\* Contents of the bookMultiple field.
MultipleTexts ==
    {<<"2", ".", "5">>, <<"-", "2">>, <<"0">>, <<>>}

TypedKeys == {"1"}

\* A keystroke at the end of the trail field: a typed digit or a backspace,
\* as <<new value, new caret>>.
KeyEdits(text) ==
    {<<text \o <<k>>, Len(text) + 1>> :
        k \in {c \in TypedKeys : Len(StripNonDigits(text)) < MaxTyped}}
    \cup {<<SubSeq(text, 1, Len(text) - 1), Len(text) - 1>> : x \in {1} \cap {Len(text)}}
    \cup {<<SubSeq(text, 1, Len(text) - 1), Len(text) - 1>> : x \in 2..Len(text)}

Init ==
    InitPage({<<>>, TenThousand}, {<<"3">>}, {NoneChecked, "acquisition"}, {Elements})

Next ==
    \/ Load
    \/ \E e \in KeyEdits(trailText) : TrailInput(e[1], e[2])
    \/ \E v \in MultipleTexts : MultipleInput(v)
    \/ MultipleChange
    \/ \E v \in PurposeValues : PurposeChange(v)
    \/ TimerFire
    \/ Tick

Spec == Init /\ [][Next]_vars

\* Texts of the trail field: every string of at most MaxLen characters over
\* two digits and a separator, and one with letters.
TextAlphabet == {"0", "1", ","}

Texts == UNION {[1..k -> TextAlphabet] : k \in 0..MaxLen}

SampleText == <<"1", ",", "2", "3", "4", "a", "b", "c">>

\* The trail field is given any text by the markup, and any text and caret
\* by the first edit after the page has loaded.
InitText ==
    InitPage(Texts \cup {SampleText}, {<<"3">>}, {"acquisition"}, {Elements})

NextText ==
    \/ Load
    \/ /\ ev.kind = "load"
       /\ \E raw \in Texts \cup {SampleText} :
            \E cursor \in 0..Len(raw) : TrailInput(raw, cursor)

SpecText == InitText /\ [][NextText]_vars

\* Pages that lack at most MaxMissing of the elements the script looks up.
Pages ==
    {Elements \ m : m \in {x \in SUBSET Elements : Cardinality(x) <= MaxMissing}}

InitDom == InitPage({TenThousand}, {<<"3">>}, {"acquisition"}, Pages)

NextDom ==
    \/ Load
    \/ \E e \in KeyEdits(trailText) : TrailInput(e[1], e[2])
    \/ MultipleChange
    \/ \E v \in PurposeValues : PurposeChange(v)
    \/ TimerFire
    \/ Tick

SpecDom == InitDom /\ [][NextDom]_vars

\* ----------------------------------------------------------------- claims

DisplaySet == {DisplayIds[i] : i \in 1..Len(DisplayIds)}

\* What calculate computes from the fields as they are now.
Current == Locals(trailText, multipleText, checked)

C2_DebounceSingleFlight ==
    /\ Cardinality(timers) <= 1
    /\ \A t \in timers :
        /\ t.id = debounceTimer
        /\ t.args = lastArgs
        /\ t.remaining >= DEBOUNCE_DELAY - sinceCall
    /\ ev.kind \in {"trailInput", "multipleInput"} => Cardinality(timers) = 1
    /\ ev.kind = "timer" =>
        /\ calc.ran
        /\ calc.args = lastArgs
        /\ sinceCall >= DEBOUNCE_DELAY
        /\ timers = {}

C2_Witness ==
    /\ ev.kind = "timer"
    /\ rearmed
    /\ calc.args = lastArgs
    /\ lastArgs # <<>>
    /\ timers = {}

\* C3: a purpose change and a committed multiple change each run calculate in
\* the same step, whether or not a timer is pending, and leave the pending
\* timer and the timer handle as they were.
C3_ImmediateRecompute ==
    [][(/\ ev'.kind \in {"multipleChange", "purposeChange"}
        /\ ev' # ev \/ checked' # checked) =>
            /\ calc'.ran /\ ~calc'.threw
            /\ calc'.args # <<>>
            /\ calc'.monthlyTrail = parseFormattedNumber(trailText')
            /\ calc'.multiple = OrElse(parseFloat(multipleText'), Dec(3, 0))
            /\ calc'.isAcquisition = (getSelectedPurpose(checked') = "acquisition")
            /\ display' = Rendered(calc')
            /\ timers' = timers
            /\ debounceTimer' = debounceTimer]_vars

C3_Witness ==
    /\ ev.kind \in {"multipleChange", "purposeChange"}
    /\ \E t \in timers : t.remaining < DEBOUNCE_DELAY /\ t.remaining > 0
    /\ \A id \in DisplaySet : display[id] = Rendered(Current)[id]

\* C4: in every recomputation the multiple calculate uses is greater than 0,
\* whatever the bookMultiple field holds.
C4_MultiplePositive ==
    (calc.ran /\ ~calc.threw) => calc.multiple.n > 0

\* C5: with a presentation target missing, a recomputation does not throw and
\* still updates every target that is present.
C5_MissingTargetSkipped ==
    ev.ran =>
        /\ ~calc.threw
        /\ \A id \in DisplaySet \cap present : display[id] = Rendered(Current)[id]

\* C6: at most one chart is live; a recomputation with the canvas present
\* destroys the chart it finds before it constructs the new one, whose two
\* data points are the bookValue and the accessAmount of that recomputation.
C6_OneLiveChart ==
    /\ Cardinality(liveCharts) <= 1
    /\ \A c \in liveCharts : c.id = comparisonChart
    /\ (calc.ran /\ ~calc.threw /\ CanvasId \in present) =>
        \E c \in liveCharts :
            /\ c.id = comparisonChart
            /\ c.data = <<calc.bookValue, calc.accessAmount>>

C6_Witness ==
    /\ ev.kind = "timer"
    /\ Cardinality(liveCharts) = 1
    /\ \E c \in liveCharts : c.data[1].n > 0 /\ c.data[1] # Mul(Dec(120000, 0), Dec(3, 0))

\* The integer a string's digits spell, read from left to right past every
\* other character; 0 when there is no digit.
RECURSIVE Spelled(_, _)
Spelled(s, acc) ==
    IF s = <<>> THEN acc
    ELSE IF Head(s) \in Digits THEN Spelled(Tail(s), 10 * acc + DigitVal(Head(s)))
    ELSE Spelled(Tail(s), acc)

C8_DisplayCurrentWhenIdle ==
    (pc = "ready" /\ timers = {}) =>
        LET L == Current
        IN  /\ display = Rendered(L)
            /\ liveCharts =
                {NewChart(comparisonChart, L.bookValue, L.accessAmount, L.isAcquisition)}

C8_Witness ==
    /\ pc = "ready"
    /\ timers = {}
    /\ ev.kind = "timer"
    /\ inp # NoInp
    /\ trailText = <<"1", "0", "0">>
    /\ display["annualTrail"] = <<"$", "1", ",", "2", "0", "0">>

\* C9: handleCurrencyInput moves the caret from c, 0 <= c <= oldLength, to
\* max(0, c + (newLength - oldLength)), which lies within the reformatted text.
C9_CaretWithinText ==
    ev.kind = "trailInput" =>
        /\ inp.cursorPosition \in 0..Len(inp.oldValue)
        /\ caret = Max(0, inp.cursorPosition + (Len(trailText) - Len(inp.oldValue)))
        /\ caret \in 0..Len(trailText)

C9_Witness ==
    /\ ev.kind = "trailInput"
    /\ inp.oldValue = <<"1", "1", "1", "1">>
    /\ inp.cursorPosition = 2
    /\ trailText = <<"1", ",", "1", "1", "1">>
    /\ caret = 3

====
